---- MODULE Spec2Model ----
(* Model of the anime caching proxy (src/server.js): three GET handlers over  *)
(* two cache tables, an upstream metadata service and a translation service.  *)
(*                                                                            *)
(* A text is a sequence of tokens: a token is one character, or an atomic     *)
(* chunk (a markup tag, a fixed message).  SQL NULL / JS null is the text     *)
(* Null.  Every await of a handler is one action: the action runs the code    *)
(* from the previous await up to and including the effect of the awaited call.*)
EXTENDS Integers, Sequences, FiniteSets, TLC

VARIABLES animes, anime_episodes, req, started, serial

vars == <<animes, anime_episodes, req, started, serial>>

\* ---------------------------------------------------------------- bounds
\* Number of requests the clients send when requests may overlap.
MaxRequests == 2

\* Number of requests the clients send when they are served one at a time.
MaxSerialRequests == 3

\* Concurrent request slots.
Reqs == {"r1", "r2"}

\* ---------------------------------------------------------------- texts
Null == <<"null">>
NullInt == -1

Letters == {"n", "a", "N", "A", "e", "d"}
Spaces == {" "}

\* JS `x || d` on a string or null.
OrElse(x, d) == IF x = Null \/ x = <<>> THEN d ELSE x

\* JS `n || 0` on a number or null.
OrZero(n) == IF n = NullInt \/ n = 0 THEN 0 ELSE n

RECURSIVE TrimLeft(_)
TrimLeft(s) ==
    IF s # <<>> /\ Head(s) \in Spaces THEN TrimLeft(Tail(s)) ELSE s

RECURSIVE TrimRight(_)
TrimRight(s) ==
    IF s # <<>> /\ s[Len(s)] \in Spaces
    THEN TrimRight(SubSeq(s, 1, Len(s) - 1))
    ELSE s

\* String.prototype.trim
Trim(s) == TrimRight(TrimLeft(s))

IsWordChar(c) == c \in Letters \/ c \in Spaces

\* query.replace(/[^\p{L}\p{N}\s]/gu, '').trim()
SanitizeQuery(q) == Trim(SelectSeq(q, IsWordChar))

\* Variant: the query is not trimmed before the test.
InvalidQueryNoTrim(query) == query.type # "string" \/ query.val = <<>>

\* typeof query !== 'string' || query.trim() === ''
InvalidQuery(query) == query.type # "string" \/ Trim(query.val) = <<>>

Fold(c) == IF c = "N" THEN "n" ELSE IF c = "A" THEN "a" ELSE c

FoldText(s) == [i \in 1..Len(s) |-> Fold(s[i])]

Contains(s, sub) ==
    \E i \in 0..(Len(s) - Len(sub)) :
        \A j \in 1..Len(sub) : s[i + j] = sub[j]

\* column LIKE '%q%' (NULL LIKE anything is not true)
Like(column, q) == column # Null /\ Contains(FoldText(column), FoldText(q))

IsTag(c) == c \in {"<b>", "</b>"}

IsNotTag(c) == ~IsTag(c)

\* sanitizeHtml(text, { allowedTags: [], allowedAttributes: {} })
sanitizeHtml(text) == SelectSeq(text, IsNotTag)

RECURSIVE Join(_)
\* Array.prototype.join(', ')
Join(list) ==
    IF list = <<>> THEN <<>>
    ELSE IF Len(list) = 1 THEN <<list[1]>>
    ELSE <<list[1], ", ">> \o Join(Tail(list))

TranslationUnavailable == <<"Traducao indisponivel">>
SemTitulo == <<"Sem titulo">>
SemDescricao == <<"Sem descricao">>
GenerosDesconhecidos == <<"Generos desconhecidos">>
NA == <<"N", "/", "A">>

\* ---------------------------------------------------------------- upstream
\* Answers of the upstream metadata service (Media objects).
NoMedia ==
    [id |-> 0, romaji |-> Null, english |-> Null, native |-> Null,
     description |-> Null, genres |-> <<>>, episodes |-> NullInt,
     cover |-> Null, banner |-> Null, hasStreaming |-> FALSE,
     streamingEpisodes |-> <<>>]

MediaA ==
    [id |-> 1, romaji |-> <<"n", "a">>, english |-> Null, native |-> <<"e">>,
     description |-> <<"<b>", "d", "</b>">>, genres |-> <<"g1", "g2">>,
     episodes |-> 2, cover |-> <<"c1">>, banner |-> Null, hasStreaming |-> TRUE,
     streamingEpisodes |->
        << [title |-> <<"e", "a">>, thumbnail |-> <<"t1">>],
           [title |-> Null, thumbnail |-> Null] >>]

\* The same anime as the upstream service lists it later.
MediaA2 ==
    [id |-> 1, romaji |-> <<"n", "e">>, english |-> <<"d">>, native |-> Null,
     description |-> <<>>, genres |-> <<>>,
     episodes |-> NullInt, cover |-> Null, banner |-> <<"b1">>, hasStreaming |-> TRUE,
     streamingEpisodes |->
        << [title |-> <<"<b>">>, thumbnail |-> <<"t2">>] >>]

MediaB ==
    [id |-> 2, romaji |-> Null, english |-> <<"a", "d">>, native |-> Null,
     description |-> <<"d">>, genres |-> <<"g1">>,
     episodes |-> 0, cover |-> Null, banner |-> Null, hasStreaming |-> FALSE,
     streamingEpisodes |-> <<>>]

Catalog == {MediaA, MediaA2, MediaB}

\* Pages the upstream paginated search can answer with (Page.media).
Pages == {<<>>, <<MediaA>>, <<MediaB, MediaA2>>}

\* Queries the clients send (req.query.query).
Queries ==
    { [type |-> "undefined", val |-> <<>>],
      [type |-> "array", val |-> <<>>],
      [type |-> "string", val |-> <<>>],
      [type |-> "string", val |-> <<" ">>],
      [type |-> "string", val |-> <<"!">>],
      [type |-> "string", val |-> <<"N", "a", "!">>],
      [type |-> "string", val |-> <<" ", "d">>] }

PageNumbers == {1, 2}
Limits == {1, 2}

\* ---------------------------------------------------------------- cache store
\* Columns of animes a statement does not list take the column default.
NewAnimeRow(id) ==
    [id |-> id, title_romaji |-> Null, title_english |-> Null,
     title_native |-> Null, description |-> Null, genres |-> Null,
     cover_image |-> Null, banner_image |-> Null, episodes |-> NullInt]

HasKey(table, id) == \E i \in 1..Len(table) : table[i].id = id

\* Variant: REPLACE INTO animes, the row is written anew with the listed columns.
ReplaceTitles(table, v) ==
    LET row == [id |-> v.id, title_romaji |-> v.title_romaji,
                title_english |-> v.title_english, title_native |-> v.title_native,
                description |-> Null, genres |-> Null, cover_image |-> Null,
                banner_image |-> Null, episodes |-> NullInt]
    IN IF \E i \in 1..Len(table) : table[i].id = v.id
       THEN [i \in 1..Len(table) |-> IF table[i].id = v.id THEN row ELSE table[i]]
       ELSE Append(table, row)

\* INSERT INTO animes (id, title_romaji, title_english, title_native) ...
\* ON DUPLICATE KEY UPDATE the three titles; v is one VALUES tuple.
UpsertTitles(table, v) ==
    IF HasKey(table, v.id)
    THEN [i \in 1..Len(table) |->
            IF table[i].id = v.id
            THEN [table[i] EXCEPT !.title_romaji = v.title_romaji,
                                  !.title_english = v.title_english,
                                  !.title_native = v.title_native]
            ELSE table[i]]
    ELSE Append(table,
                [NewAnimeRow(v.id) EXCEPT !.title_romaji = v.title_romaji,
                                          !.title_english = v.title_english,
                                          !.title_native = v.title_native])

RECURSIVE UpsertTitlesBatch(_, _)
UpsertTitlesBatch(table, values) ==
    IF values = <<>> THEN table
    ELSE UpsertTitlesBatch(UpsertTitles(table, Head(values)), Tail(values))

\* Variant: a plain INSERT on a table without the key.
InsertAnime(table, v) == Append(table, v)

\* INSERT INTO animes (all nine columns) ... ON DUPLICATE KEY UPDATE all eight.
UpsertAnime(table, v) ==
    IF HasKey(table, v.id)
    THEN [i \in 1..Len(table) |-> IF table[i].id = v.id THEN v ELSE table[i]]
    ELSE Append(table, v)

\* Variant: the unique key of anime_episodes is anime_id alone.
EpisodeKeyByAnime(table, v) == {i \in 1..Len(table) : table[i].anime_id = v.anime_id}

EpisodeKeyAt(table, v) ==
    {i \in 1..Len(table) :
        table[i].anime_id = v.anime_id /\ table[i].episode_number = v.episode_number}

\* Variant: INSERT INTO anime_episodes without ON DUPLICATE KEY UPDATE, on a
\* table without the unique key.
InsertEpisode(table, v) == Append(table, v)

\* INSERT INTO anime_episodes ... ON DUPLICATE KEY UPDATE title_romaji,
\* title_translated, thumbnail_image; the key is (anime_id, episode_number).
UpsertEpisode(table, v) ==
    IF EpisodeKeyAt(table, v) # {}
    THEN [i \in 1..Len(table) |-> IF i \in EpisodeKeyAt(table, v) THEN v ELSE table[i]]
    ELSE Append(table, v)

RECURSIVE UpsertEpisodesBatch(_, _)
UpsertEpisodesBatch(table, values) ==
    IF values = <<>> THEN table
    ELSE UpsertEpisodesBatch(UpsertEpisode(table, Head(values)), Tail(values))

\* WHERE title_romaji LIKE ? OR title_english LIKE ? OR title_native LIKE ?
TitleMatches(row, q) ==
    \/ Like(row.title_romaji, q)
    \/ Like(row.title_english, q)
    \/ Like(row.title_native, q)

MatchingAnimes(table, q) == SelectSeq(table, LAMBDA row : TitleMatches(row, q))

\* SELECT id, title_romaji, title_english, title_native FROM animes WHERE ...
SelectTitles(table, q) ==
    LET m == MatchingAnimes(table, q)
    IN [i \in 1..Len(m) |->
          [id |-> m[i].id, title_romaji |-> m[i].title_romaji,
           title_english |-> m[i].title_english, title_native |-> m[i].title_native]]

Min(a, b) == IF a < b THEN a ELSE b

\* (parseInt(page) - 1) * parseInt(limit)
Offset(page, limit) == (page - 1) * limit

\* SELECT * FROM animes WHERE ... LIMIT ? OFFSET ?
SelectAnimes(table, q, limit, offset) ==
    LET m == MatchingAnimes(table, q)
    IN SubSeq(m, offset + 1, Min(offset + limit, Len(m)))

EpisodeColumns(row) ==
    [episode_number |-> row.episode_number, title_romaji |-> row.title_romaji,
     title_translated |-> row.title_translated,
     thumbnail_image |-> row.thumbnail_image]

\* Variant: the WHERE clause is missing.
SelectAllEpisodes(table, id) == [i \in 1..Len(table) |-> EpisodeColumns(table[i])]

\* SELECT episode_number, title_romaji, title_translated, thumbnail_image
\* FROM anime_episodes WHERE anime_id = ?
SelectEpisodes(table, id) ==
    LET m == SelectSeq(table, LAMBDA row : row.anime_id = id)
    IN [i \in 1..Len(m) |-> EpisodeColumns(m[i])]

\* ---------------------------------------------------------------- translation
\* What the translation service does with one call: the transport fails or the
\* status is not ok ("fail"), or it answers with the translated text ("ok").
TranslateOutcomes == {"fail", "ok"}

\* data.translations[0].text of an ok answer: the service translates the words
\* and leaves markup alone, so a text without words comes back as it is.
ServiceText(text) ==
    IF sanitizeHtml(text) = <<>> THEN text ELSE <<"pt:">> \o text

\* Variant: the failure is not caught.
translateTextNoCatch(text, outcome) ==
    IF outcome = "fail"
    THEN [threw |-> TRUE, text |-> <<>>]
    ELSE [threw |-> FALSE,
          text |-> OrElse(ServiceText(text), TranslationUnavailable)]

\* translateText(text, 'PT-BR'): the text it returns, or that it threw.
translateText(text, outcome) ==
    IF outcome = "fail"
    THEN [threw |-> FALSE, text |-> TranslationUnavailable]
    ELSE [threw |-> FALSE,
          text |-> OrElse(ServiceText(text), TranslationUnavailable)]

\* ---------------------------------------------------------------- requests
NoBody == [source |-> "none", results |-> <<>>, error |-> FALSE]
ErrorBody == [source |-> "none", results |-> <<>>, error |-> TRUE]

Idle ==
    [pc |-> "idle", route |-> "none",
     query |-> [type |-> "undefined", val |-> <<>>],
     sanitizedQuery |-> <<>>,
     rows |-> <<>>, episodesOf |-> <<>>, pendingRows |-> {},
     anime |-> NoMedia, animesPage |-> <<>>,
     descriptionPt |-> <<>>, translatedTitles |-> <<>>, pendingTitles |-> {},
     status |-> 0, body |-> NoBody, replies |-> 0,
     upstreamCalls |-> 0, translateCalls |-> 0, cacheReads |-> 0,
     writes |-> <<>>, descOutcome |-> "none",
     thrown |-> "none"]

\* reply.status(status).send(body)
Reply(st, status, body) ==
    [st EXCEPT !.pc = "done", !.status = status, !.body = body, !.replies = @ + 1]

\* Variant: the catch block logs the error and sends nothing.
CaughtSilently(st, cause) == [st EXCEPT !.pc = "failed", !.thrown = cause]

\* catch (error) { reply.status(500).send({ error }) }
Caught(st, cause) == [Reply(st, 500, ErrorBody) EXCEPT !.thrown = cause]

Arrive(route, query) ==
    [Idle EXCEPT !.route = route, !.query = query,
                 !.sanitizedQuery = IF query.type = "string"
                                    THEN SanitizeQuery(query.val) ELSE <<>>]

\* A request arrives on a free slot; the second slot is taken only while the
\* first one is busy (the slots are interchangeable).  serial tells whether the
\* clients wait for a reply before they send the next request.
Accept(r) ==
    /\ req[r].pc = "idle"
    /\ r = "r2" => req["r1"].pc # "idle"
    /\ IF serial
       THEN started < MaxSerialRequests /\ \A o \in Reqs : req[o].pc = "idle"
       ELSE started < MaxRequests
    /\ started' = started + 1
    /\ serial' = serial

\* --- GET /anime/search-titles
\* Variant: an empty result falls back to the upstream fetch of the combined lookup.
TitlesAnswerFallback(st, rows) ==
    IF rows = <<>> THEN [st EXCEPT !.pc = "fetch"]
    ELSE Reply(st, 200, [source |-> "database", results |-> rows, error |-> FALSE])

TitlesAnswer(st, rows) ==
    Reply(st, 200, [source |-> "database", results |-> rows, error |-> FALSE])

SearchTitles(r, query, dbOk) ==
    /\ Accept(r)
    /\ LET st == Arrive("search-titles", query)
       IN req' = [req EXCEPT ![r] =
            IF InvalidQuery(query) THEN Reply(st, 400, ErrorBody)
            ELSE IF ~dbOk THEN Caught([st EXCEPT !.cacheReads = 1], "db")
            ELSE TitlesAnswer([st EXCEPT !.cacheReads = 1],
                              SelectTitles(animes, st.sanitizedQuery))]
    /\ UNCHANGED <<animes, anime_episodes>>

\* --- GET /anime/search-api
\* animes.map(anime => [id, romaji || null, english || 'N/A', native || null])
TitleValues(anime) ==
    [id |-> anime.id,
     title_romaji |-> OrElse(anime.romaji, Null),
     title_english |-> OrElse(anime.english, NA),
     title_native |-> OrElse(anime.native, Null)]

TitleSummary(anime) ==
    [id |-> anime.id, title_romaji |-> anime.romaji,
     title_english |-> anime.english, title_native |-> anime.native]

\* animes.map(...) over the page
AnimeValuesOfPage(page) == [i \in 1..Len(page) |-> TitleValues(page[i])]

SummariesOfPage(page) == [i \in 1..Len(page) |-> TitleSummary(page[i])]

\* Variant: the empty page is not answered with 404.
ApiAnswerNoCheck(st, fetchOk, page) ==
    IF ~fetchOk THEN Caught(st, "upstream")
    ELSE [st EXCEPT !.pc = "api_write", !.animesPage = page]

\* The handler up to the upstream answer: fetchOk is FALSE when the call fails.
ApiAnswer(st, fetchOk, page) ==
    IF ~fetchOk THEN Caught(st, "upstream")
    ELSE IF page = <<>> THEN Reply(st, 404, ErrorBody)
    ELSE [st EXCEPT !.pc = "api_write", !.animesPage = page]

SearchApi(r, query, fetchOk, page) ==
    /\ Accept(r)
    /\ LET st == Arrive("search-api", query)
       IN req' = [req EXCEPT ![r] =
            IF InvalidQuery(query) THEN Reply(st, 400, ErrorBody)
            ELSE ApiAnswer([st EXCEPT !.upstreamCalls = 1], fetchOk, page)]
    /\ UNCHANGED <<animes, anime_episodes>>

SearchApiWrite(r, dbOk) ==
    /\ req[r].pc = "api_write"
    /\ IF dbOk
       THEN /\ animes' = UpsertTitlesBatch(animes, AnimeValuesOfPage(req[r].animesPage))
            /\ req' = [req EXCEPT ![r] =
                 Reply([@ EXCEPT !.writes = Append(@, "animes")], 200,
                       [source |-> "api",
                        results |-> SummariesOfPage(req[r].animesPage),
                        error |-> FALSE])]
       ELSE /\ animes' = animes
            /\ req' = [req EXCEPT ![r] = Caught(@, "db")]
    /\ UNCHANGED <<anime_episodes, started, serial>>

\* --- GET /anime/name
\* Variant: the upstream fetch follows whatever the cache answered.
NameAlwaysFetch(st, rows) == [st EXCEPT !.pc = "fetch", !.rows = rows]

\* Variant: rows.length > 1, a single matching row goes on to the upstream fetch.
NameRefetchSingle(st, rows) ==
    IF Len(rows) > 1
    THEN [st EXCEPT !.pc = "hit", !.rows = rows,
                    !.episodesOf = [i \in 1..Len(rows) |-> <<>>],
                    !.pendingRows = 1..Len(rows)]
    ELSE [st EXCEPT !.pc = "fetch", !.rows = rows]

\* The cache answer decides between the hit branch and the miss branch.
NameAfterSelect(st, rows) ==
    IF Len(rows) > 0
    THEN [st EXCEPT !.pc = "hit", !.rows = rows,
                    !.episodesOf = [i \in 1..Len(rows) |-> <<>>],
                    !.pendingRows = 1..Len(rows)]
    ELSE [st EXCEPT !.pc = "fetch"]

AnimeName(r, query, page, limit, dbOk) ==
    /\ Accept(r)
    /\ LET st == Arrive("name", query)
       IN req' = [req EXCEPT ![r] =
            IF InvalidQuery(query) THEN Reply(st, 400, ErrorBody)
            ELSE IF ~dbOk THEN Caught([st EXCEPT !.cacheReads = 1], "db")
            ELSE NameAfterSelect([st EXCEPT !.cacheReads = 1],
                    SelectAnimes(animes, st.sanitizedQuery, limit, Offset(page, limit)))]
    /\ UNCHANGED <<animes, anime_episodes>>

\* return { anime, episodes } for every row, in the order of rows
HitResults(st) ==
    [i \in 1..Len(st.rows) |-> [anime |-> st.rows[i], episodes |-> st.episodesOf[i]]]

\* One of the episode sub-queries of Promise.all(rows.map(...)) resolves; the
\* sub-queries resolve in any order and the last one releases the reply.
HitEpisodes(r, k, dbOk) ==
    /\ req[r].pc = "hit"
    /\ k \in req[r].pendingRows
    /\ req' = [req EXCEPT ![r] =
         IF ~dbOk THEN Caught([@ EXCEPT !.cacheReads = @ + 1], "db")
         ELSE LET st == [@ EXCEPT !.cacheReads = @ + 1,
                                  !.pendingRows = @ \ {k},
                                  !.episodesOf[k] =
                                      SelectEpisodes(anime_episodes, req[r].rows[k].id)]
              IN IF st.pendingRows = {}
                 THEN Reply(st, 200, [source |-> "database",
                                      results |-> HitResults(st), error |-> FALSE])
                 ELSE st]
    /\ UNCHANGED <<animes, anime_episodes, started, serial>>

\* graphqlClient.request(gqlQueryWithEpisodes, { search }): media is NoMedia
\* when response.Media is null.
Fetch(r, fetchOk, media) ==
    /\ req[r].pc = "fetch"
    /\ req' = [req EXCEPT ![r] =
         LET st == [@ EXCEPT !.upstreamCalls = @ + 1]
         IN IF ~fetchOk THEN Caught(st, "upstream")
            ELSE IF media = NoMedia THEN Reply(st, 404, ErrorBody)
            ELSE [st EXCEPT !.pc = "translate", !.anime = media]]
    /\ UNCHANGED <<animes, anime_episodes, started, serial>>

\* Variant: episode_number: index.
PrepareEpisodesFromZero(anime) ==
    IF ~anime.hasStreaming THEN <<>>
    ELSE [index \in 1..Len(anime.streamingEpisodes) |->
            [anime_id |-> anime.id,
             episode_number |-> index - 1,
             title_romaji |-> OrElse(anime.streamingEpisodes[index].title, Null),
             thumbnail_image |-> OrElse(anime.streamingEpisodes[index].thumbnail, Null)]]

\* anime.streamingEpisodes?.map((ep, index) => ({...})) || []
PrepareEpisodes(anime) ==
    IF ~anime.hasStreaming THEN <<>>
    ELSE [index \in 1..Len(anime.streamingEpisodes) |->
            [anime_id |-> anime.id,
             episode_number |-> index,
             title_romaji |-> OrElse(anime.streamingEpisodes[index].title, Null),
             thumbnail_image |-> OrElse(anime.streamingEpisodes[index].thumbnail, Null)]]

\* The route continues after the translations: the episode batch when there
\* are episodes, the anime row otherwise.
AfterTranslations(st) ==
    IF Len(PrepareEpisodes(st.anime)) > 0
    THEN [st EXCEPT !.pc = "writeEpisodes"]
    ELSE [st EXCEPT !.pc = "writeAnime"]

\* await translateText(anime.description || '', 'PT-BR'); the episode
\* translations are issued as soon as it resolves.
TranslateDescription(r, outcome) ==
    /\ req[r].pc = "translate"
    /\ req' = [req EXCEPT ![r] =
         LET t == translateText(OrElse(req[r].anime.description, <<>>), outcome)
             n == Len(PrepareEpisodes(req[r].anime))
             st == [@ EXCEPT !.translateCalls = @ + 1, !.descOutcome = outcome]
         IN IF t.threw THEN Caught(st, "translation")
            ELSE IF n = 0
            THEN AfterTranslations([st EXCEPT !.descriptionPt = t.text])
            ELSE [st EXCEPT !.pc = "translateEpisodes",
                            !.descriptionPt = t.text,
                            !.translatedTitles = [i \in 1..n |-> Null],
                            !.pendingTitles = 1..n]]
    /\ UNCHANGED <<animes, anime_episodes, started, serial>>

\* sanitizeHtml(await translateText(ep.title_romaji || '', 'PT-BR')) || 'Sem título'
TranslatedTitle(ep, outcome) ==
    LET t == translateText(OrElse(ep.title_romaji, <<>>), outcome)
    IN [threw |-> t.threw, text |-> OrElse(sanitizeHtml(t.text), SemTitulo)]

\* Variant: the results are collected in the order in which they arrive.
TranslateEpisodeInArrivalOrder(r, k, outcome) ==
    /\ req[r].pc = "translateEpisodes"
    /\ k \in req[r].pendingTitles
    /\ req' = [req EXCEPT ![r] =
         LET t == TranslatedTitle(PrepareEpisodes(req[r].anime)[k], outcome)
             n == Len(req[r].translatedTitles)
             slot == n - Cardinality(req[r].pendingTitles) + 1
             st == [@ EXCEPT !.translateCalls = @ + 1,
                             !.pendingTitles = @ \ {k},
                             !.translatedTitles[slot] = t.text]
         IN IF t.threw THEN Caught(st, "translation")
            ELSE IF st.pendingTitles = {} THEN AfterTranslations(st)
            ELSE st]
    /\ UNCHANGED <<animes, anime_episodes, started, serial>>

\* Variant: the handler goes on as soon as one translation has resolved
\* (Promise.race in place of Promise.all).
TranslateEpisodeNoWait(r, k, outcome) ==
    /\ req[r].pc = "translateEpisodes"
    /\ k \in req[r].pendingTitles
    /\ req' = [req EXCEPT ![r] =
         LET t == TranslatedTitle(PrepareEpisodes(req[r].anime)[k], outcome)
             st == [@ EXCEPT !.translateCalls = @ + 1,
                             !.pendingTitles = @ \ {k},
                             !.translatedTitles[k] = t.text]
         IN IF t.threw THEN Caught(st, "translation")
            ELSE AfterTranslations(st)]
    /\ UNCHANGED <<animes, anime_episodes, started, serial>>

\* One translation of Promise.all(episodes.map(...)) resolves, in any order.
TranslateEpisode(r, k, outcome) ==
    /\ req[r].pc = "translateEpisodes"
    /\ k \in req[r].pendingTitles
    /\ req' = [req EXCEPT ![r] =
         LET t == TranslatedTitle(PrepareEpisodes(req[r].anime)[k], outcome)
             st == [@ EXCEPT !.translateCalls = @ + 1,
                             !.pendingTitles = @ \ {k},
                             !.translatedTitles[k] = t.text]
         IN IF t.threw THEN Caught(st, "translation")
            ELSE IF st.pendingTitles = {} THEN AfterTranslations(st)
            ELSE st]
    /\ UNCHANGED <<animes, anime_episodes, started, serial>>

\* episodes.forEach((ep, index) => { ep.title_translated = translatedTitles[index] })
\* and episodes.map(ep => [anime_id, episode_number, ...])
EpisodeValues(st) ==
    LET episodes == PrepareEpisodes(st.anime)
    IN [index \in 1..Len(episodes) |->
          [anime_id |-> episodes[index].anime_id,
           episode_number |-> episodes[index].episode_number,
           title_romaji |-> episodes[index].title_romaji,
           title_translated |-> st.translatedTitles[index],
           thumbnail_image |-> episodes[index].thumbnail_image]]

cleanDescription(st) == sanitizeHtml(st.descriptionPt)

\* The nine bound parameters of the anime upsert.
AnimeValues(st) ==
    [id |-> st.anime.id,
     title_romaji |-> OrElse(st.anime.romaji, Null),
     title_english |-> OrElse(st.anime.english, NA),
     title_native |-> OrElse(st.anime.native, Null),
     description |-> OrElse(cleanDescription(st), SemDescricao),
     genres |-> OrElse(Join(st.anime.genres), GenerosDesconhecidos),
     cover_image |-> OrElse(st.anime.cover, Null),
     banner_image |-> OrElse(st.anime.banner, Null),
     episodes |-> OrZero(st.anime.episodes)]

\* The body of the reply of the miss branch.
ApiResults(st) ==
    << [anime |-> [id |-> st.anime.id,
                   title |-> [romaji |-> st.anime.romaji,
                              english |-> st.anime.english,
                              native |-> st.anime.native],
                   description |-> cleanDescription(st),
                   genres |-> st.anime.genres,
                   episodes |-> st.anime.episodes,
                   coverImage |-> st.anime.cover,
                   bannerImage |-> st.anime.banner],
        episodes |-> [i \in 1..Len(EpisodeValues(st)) |->
                        [number |-> EpisodeValues(st)[i].episode_number,
                         title_romaji |-> EpisodeValues(st)[i].title_romaji,
                         title_translated |-> EpisodeValues(st)[i].title_translated,
                         thumbnail |-> EpisodeValues(st)[i].thumbnail_image]]] >>

\* The first write of the miss branch.
WriteEpisodes(r, dbOk) ==
    /\ req[r].pc = "writeEpisodes"
    /\ IF dbOk
       THEN /\ anime_episodes' = UpsertEpisodesBatch(anime_episodes, EpisodeValues(req[r]))
            /\ req' = [req EXCEPT ![r] =
                 [@ EXCEPT !.pc = "writeAnime", !.writes = Append(@, "anime_episodes")]]
       ELSE /\ anime_episodes' = anime_episodes
            /\ req' = [req EXCEPT ![r] = Caught(@, "db")]
    /\ UNCHANGED <<animes, started, serial>>

\* The second write of the miss branch, and the reply.
WriteAnime(r, dbOk) ==
    /\ req[r].pc = "writeAnime"
    /\ IF dbOk
       THEN /\ animes' = UpsertAnime(animes, AnimeValues(req[r]))
            /\ req' = [req EXCEPT ![r] =
                 Reply([@ EXCEPT !.writes = Append(@, "animes")], 200,
                       [source |-> "api", results |-> ApiResults(req[r]),
                        error |-> FALSE])]
       ELSE /\ animes' = animes
            /\ req' = [req EXCEPT ![r] = Caught(@, "db")]
    /\ UNCHANGED <<anime_episodes, started, serial>>

\* The reply has been sent; the slot serves the next request.
Finish(r) ==
    /\ req[r].pc = "done"
    /\ req' = [req EXCEPT ![r] = Idle]
    /\ UNCHANGED <<animes, anime_episodes, started, serial>>

\* ---------------------------------------------------------------- specification
Init ==
    /\ animes = <<>>
    /\ anime_episodes = <<>>
    /\ req = [r \in Reqs |-> Idle]
    /\ started = 0
    /\ serial = FALSE

Next ==
    \E r \in Reqs :
        \/ \E query \in Queries, dbOk \in BOOLEAN : SearchTitles(r, query, dbOk)
        \/ \E query \in Queries, fetchOk \in BOOLEAN, page \in Pages :
               SearchApi(r, query, fetchOk, page)
        \/ \E dbOk \in BOOLEAN : SearchApiWrite(r, dbOk)
        \/ \E query \in Queries, page \in PageNumbers, limit \in Limits, dbOk \in BOOLEAN :
               AnimeName(r, query, page, limit, dbOk)
        \/ \E k \in 1..2, dbOk \in BOOLEAN : HitEpisodes(r, k, dbOk)
        \/ \E fetchOk \in BOOLEAN, media \in Catalog \cup {NoMedia} :
               Fetch(r, fetchOk, media)
        \/ \E outcome \in TranslateOutcomes : TranslateDescription(r, outcome)
        \/ \E k \in 1..2, outcome \in TranslateOutcomes : TranslateEpisode(r, k, outcome)
        \/ \E dbOk \in BOOLEAN : WriteEpisodes(r, dbOk)
        \/ \E dbOk \in BOOLEAN : WriteAnime(r, dbOk)
        \/ Finish(r)

Spec == Init /\ [][Next]_vars

\* The same server with clients that send one request at a time.
SerialInit ==
    /\ animes = <<>>
    /\ anime_episodes = <<>>
    /\ req = [r \in Reqs |-> Idle]
    /\ started = 0
    /\ serial = TRUE

SerialSpec == SerialInit /\ [][Next]_vars

\* The continuation of the request of slot r after one of its awaits.
Progress(r) ==
    \/ \E dbOk \in BOOLEAN : SearchApiWrite(r, dbOk)
    \/ \E k \in 1..2, dbOk \in BOOLEAN : HitEpisodes(r, k, dbOk)
    \/ \E fetchOk \in BOOLEAN, media \in Catalog \cup {NoMedia} : Fetch(r, fetchOk, media)
    \/ \E outcome \in TranslateOutcomes : TranslateDescription(r, outcome)
    \/ \E k \in 1..2, outcome \in TranslateOutcomes : TranslateEpisode(r, k, outcome)
    \/ \E dbOk \in BOOLEAN : WriteEpisodes(r, dbOk)
    \/ \E dbOk \in BOOLEAN : WriteAnime(r, dbOk)

\* Every outbound call of a request eventually resolves or fails, and the
\* event loop then runs the continuation of the handler.
FairSpec == SerialSpec /\ \A r \in Reqs : WF_vars(Progress(r))

\* ---------------------------------------------------------------- properties
Busy(r) == req[r].pc # "idle"
Done(r) == req[r].pc = "done"

NoRowMatches(table, q) == \A i \in 1..Len(table) : ~TitleMatches(table[i], q)

\* The request of slot r got its reply with this step.
Replies(r) == req[r].pc # "done" /\ req'[r].pc = "done"

\* C1: a title-only lookup never calls the upstream service or the translation
\* service and never writes to the cache; when no stored row matches its query
\* it answers 200 with source "database" and an empty result list, and a
\* successful answer always carries source "database".
C1_TitlesNoCalls ==
    \A r \in Reqs :
        req[r].route = "search-titles" =>
            /\ req[r].upstreamCalls = 0
            /\ req[r].translateCalls = 0
            /\ req[r].writes = <<>>
            /\ req[r].pc = "done"
            /\ req[r].status \in {200, 400, 500}
            /\ req[r].status = 200 => req[r].body.source = "database"

C1_TitlesNoMatch ==
    \A r \in Reqs :
        ( /\ Replies(r)
          /\ req'[r].route = "search-titles"
          /\ req'[r].status # 400
          /\ req'[r].thrown = "none"
          /\ NoRowMatches(animes, req'[r].sanitizedQuery) )
        => /\ req'[r].status = 200
           /\ req'[r].body.source = "database"
           /\ req'[r].body.results = <<>>
           /\ animes' = animes
           /\ anime_episodes' = anime_episodes

C1_TitleLookupIsLocal == [](C1_TitlesNoCalls) /\ [][C1_TitlesNoMatch]_vars

\* A title-only lookup answered with an empty list while the cache holds rows.
C1_Witness ==
    \E r \in Reqs :
        /\ req[r].route = "search-titles"
        /\ Done(r)
        /\ req[r].status = 200
        /\ req[r].body.results = <<>>
        /\ req[r].sanitizedQuery # <<>>
        /\ animes # <<>>

\* C2: the animes table holds one row per anime identifier, and a write of an
\* identifier that already has a row leaves one row carrying the values of
\* that (second) submission.
OneRowPerId(table) ==
    \A i, j \in 1..Len(table) : table[i].id = table[j].id => i = j

RowsOf(table, id) == {i \in 1..Len(table) : table[i].id = id}

TitlesOf(row) == <<row.title_romaji, row.title_english, row.title_native>>

C2_AnimeWrite ==
    \A r \in Reqs :
        (req[r].pc = "writeAnime" /\ req'[r].status = 200) =>
            LET v == AnimeValues(req[r])
            IN /\ Cardinality(RowsOf(animes', v.id)) = 1
               /\ \A i \in RowsOf(animes', v.id) : animes'[i] = v
               /\ Len(animes') = Len(animes) + (IF RowsOf(animes, v.id) = {} THEN 1 ELSE 0)
               /\ \A i \in 1..Len(animes) : animes[i].id # v.id => animes'[i] = animes[i]

C2_TitleWrite ==
    \A r \in Reqs :
        (req[r].pc = "api_write" /\ req'[r].status = 200) =>
            \A k \in 1..Len(req[r].animesPage) :
                LET v == TitleValues(req[r].animesPage[k])
                IN /\ Cardinality(RowsOf(animes', v.id)) = 1
                   /\ \A i \in RowsOf(animes', v.id) : TitlesOf(animes'[i]) = TitlesOf(v)

C2_UpsertIdempotence ==
    [](OneRowPerId(animes)) /\ [][C2_AnimeWrite /\ C2_TitleWrite]_vars

\* Anime 1 was stored by the combined lookup (cover image of the first upstream
\* answer) and then submitted again by the paginated search with other titles.
C2_Witness ==
    /\ OneRowPerId(animes)
    /\ \E i \in 1..Len(animes) :
        /\ animes[i].id = 1
        /\ animes[i].cover_image = MediaA.cover
        /\ animes[i].title_romaji = MediaA2.romaji
        /\ animes[i].title_english = MediaA2.english

\* C3: on a cache hit of the combined lookup each episode sub-query returns
\* exactly the rows stored for that anime id, in storage order, and the reply
\* pairs every matched anime with the list read for it.
RECURSIVE StoredEpisodes(_, _)
StoredEpisodes(table, id) ==
    IF table = <<>> THEN <<>>
    ELSE (IF Head(table).anime_id = id
          THEN << [episode_number |-> Head(table).episode_number,
                   title_romaji |-> Head(table).title_romaji,
                   title_translated |-> Head(table).title_translated,
                   thumbnail_image |-> Head(table).thumbnail_image] >>
          ELSE <<>>) \o StoredEpisodes(Tail(table), id)

C3_EpisodeRead ==
    \A r \in Reqs : \A k \in 1..2 :
        ( /\ req[r].pc = "hit"
          /\ k \in req[r].pendingRows
          /\ k \notin req'[r].pendingRows
          /\ req'[r].thrown = "none" )
        => req'[r].episodesOf[k] = StoredEpisodes(anime_episodes, req[r].rows[k].id)

C3_HitReply ==
    \A r \in Reqs :
        (Done(r) /\ req[r].route = "name" /\ req[r].body.source = "database") =>
            /\ req[r].status = 200
            /\ req[r].pendingRows = {}
            /\ Len(req[r].body.results) = Len(req[r].rows)
            /\ \A i \in 1..Len(req[r].rows) :
                /\ req[r].body.results[i].anime = req[r].rows[i]
                /\ req[r].body.results[i].episodes = req[r].episodesOf[i]

C3_HitEpisodesExact == [](C3_HitReply) /\ [][C3_EpisodeRead]_vars

\* A hit that returns an anime with its two stored episodes and another anime
\* with none.
C3_Witness ==
    \E r \in Reqs :
        /\ Done(r)
        /\ req[r].route = "name"
        /\ req[r].body.source = "database"
        /\ Len(req[r].body.results) = 2
        /\ \E i, j \in 1..2 :
            /\ Len(req[r].body.results[i].episodes) = 2
            /\ req[r].body.results[j].episodes = <<>>

\* C4: the miss path of the combined lookup numbers the N streaming episodes of
\* the upstream answer 1..N by position: the batch it persists holds, for every
\* position i, one row (anime id, i) with the title and thumbnail of entry i,
\* it adds no other number to the anime, and the reply lists 1..N in order.
EpisodeNumbers(table, id) ==
    {table[i].episode_number : i \in {j \in 1..Len(table) : table[j].anime_id = id}}

EpisodeRowsAt(table, id, n) ==
    {i \in 1..Len(table) : table[i].anime_id = id /\ table[i].episode_number = n}

C4_EpisodeWrite ==
    \A r \in Reqs :
        (req[r].pc = "writeEpisodes" /\ req'[r].pc = "writeAnime") =>
            LET m == req[r].anime
                n == Len(m.streamingEpisodes)
            IN /\ EpisodeNumbers(anime_episodes', m.id)
                    = (1..n) \cup EpisodeNumbers(anime_episodes, m.id)
               /\ \A i \in 1..n :
                    /\ Cardinality(EpisodeRowsAt(anime_episodes', m.id, i)) = 1
                    /\ \A j \in EpisodeRowsAt(anime_episodes', m.id, i) :
                        /\ anime_episodes'[j].title_romaji
                              = OrElse(m.streamingEpisodes[i].title, Null)
                        /\ anime_episodes'[j].thumbnail_image
                              = OrElse(m.streamingEpisodes[i].thumbnail, Null)

C4_EpisodeReply ==
    \A r \in Reqs :
        (Done(r) /\ req[r].route = "name" /\ req[r].body.source = "api") =>
            LET m == req[r].anime
                n == IF m.hasStreaming THEN Len(m.streamingEpisodes) ELSE 0
                eps == req[r].body.results[1].episodes
            IN /\ Len(eps) = n
               /\ \A i \in 1..n :
                    /\ eps[i].number = i
                    /\ eps[i].title_romaji = OrElse(m.streamingEpisodes[i].title, Null)

C5_FallbackState ==
    \A r \in Reqs :
        /\ req[r].thrown # "translation"
        /\ req[r].descOutcome = "fail" =>
            /\ req[r].descriptionPt = TranslationUnavailable
            /\ Done(r) => \/ /\ req[r].status = 200
                             /\ req[r].body.source = "api"
                             /\ req[r].body.results[1].anime.description
                                    = TranslationUnavailable
                          \/ /\ req[r].status = 500
                             /\ req[r].thrown = "db"

C5_FallbackStored ==
    \A r \in Reqs :
        ( /\ req[r].pc = "writeAnime"
          /\ req[r].descOutcome = "fail"
          /\ req'[r].status = 200 )
        => \A i \in RowsOf(animes', req[r].anime.id) :
                animes'[i].description = TranslationUnavailable

C5_TranslationFallback == [](C5_FallbackState) /\ [][C5_FallbackStored]_vars

\* A miss-path request whose description translation failed was answered 200
\* and its anime row holds the fallback text.
C5_Witness ==
    \E r \in Reqs :
        /\ Done(r)
        /\ req[r].status = 200
        /\ req[r].descOutcome = "fail"
        /\ \E i \in RowsOf(animes, req[r].anime.id) :
              animes[i].description = TranslationUnavailable

\* C6: in the miss path of the combined lookup the anime row is written first:
\* no episode write of a request precedes that request's anime write.
C6_AnimeWrittenFirst ==
    \A r \in Reqs :
        (req[r].route = "name" /\ req[r].writes # <<>>) => req[r].writes[1] = "animes"

\* C7: a miss-path request that fails after its first write leaves the anime
\* row in place, and once no request is in flight no episode row belongs to an
\* anime identifier without a row in animes.
InFlight(r) == req[r].pc \notin {"idle", "done"}

NoOrphanEpisodes ==
    \A i \in 1..Len(anime_episodes) : HasKey(animes, anime_episodes[i].anime_id)

C7_PartialFailureKeepsAnime ==
    /\ \A r \in Reqs :
          (Done(r) /\ req[r].route = "name" /\ req[r].status = 500 /\ req[r].writes # <<>>)
              => HasKey(animes, req[r].anime.id)
    /\ (\A r \in Reqs : ~InFlight(r)) => NoOrphanEpisodes

\* C8: on each endpoint a query that is missing, not a string, empty or made of
\* whitespace only is answered 400 with an error body before any cache read,
\* cache write, upstream call or translation call; no other query is answered 400.
BadQuery(query) ==
    query.type # "string" \/ \A i \in 1..Len(query.val) : query.val[i] \in Spaces

C8_Rejected ==
    \A r \in Reqs :
        /\ (Busy(r) /\ BadQuery(req[r].query)) =>
              /\ Done(r)
              /\ req[r].status = 400
              /\ req[r].body.error
              /\ req[r].cacheReads = 0
              /\ req[r].upstreamCalls = 0
              /\ req[r].translateCalls = 0
              /\ req[r].writes = <<>>
        /\ (Done(r) /\ req[r].status = 400) => BadQuery(req[r].query)

C8_RejectedNoEffect ==
    \A r \in Reqs :
        (Replies(r) /\ req'[r].status = 400) =>
            animes' = animes /\ anime_episodes' = anime_episodes

C8_ValidationFirst == [](C8_Rejected) /\ [][C8_RejectedNoEffect]_vars

\* The combined lookup rejected a whitespace-only query while the cache holds rows.
C8_Witness ==
    \E r \in Reqs :
        /\ Done(r)
        /\ req[r].route = "name"
        /\ req[r].query = [type |-> "string", val |-> <<" ">>]
        /\ req[r].status = 400
        /\ animes # <<>>

\* C9: the upstream paginated search never reads the cache and, for a valid
\* query, calls the upstream service once; an empty upstream page is answered
\* 404 with both tables unchanged, and a 200 answer lists at least one anime.
C9_ApiState ==
    \A r \in Reqs :
        req[r].route = "search-api" =>
            /\ req[r].cacheReads = 0
            /\ ~BadQuery(req[r].query) => req[r].upstreamCalls = 1
            /\ req[r].status = 404 => req[r].writes = <<>> /\ req[r].animesPage = <<>>
            /\ req[r].status = 200 => req[r].body.results # <<>>
            /\ req[r].pc = "api_write" => req[r].animesPage # <<>>

C9_ApiNotFound ==
    \A r \in Reqs :
        (Replies(r) /\ req'[r].route = "search-api" /\ req'[r].status = 404) =>
            animes' = animes /\ anime_episodes' = anime_episodes

C9_ApiSearchDirect == [](C9_ApiState) /\ [][C9_ApiNotFound]_vars

\* The paginated search answered 404 while the cache holds a row.
C9_Witness ==
    \E r \in Reqs :
        /\ Done(r)
        /\ req[r].route = "search-api"
        /\ req[r].status = 404
        /\ req[r].upstreamCalls = 1
        /\ animes # <<>>

\* C10 as stated: only a request that found the cache empty for its query
\* writes a row, and a request answered 400 or 404 writes nothing.
C10_WritesOnlyAfterMiss ==
    \A r \in Reqs :
        /\ req[r].writes # <<>> => (req[r].cacheReads = 1 /\ req[r].rows = <<>>)
        /\ req[r].status \in {400, 404} => req[r].writes = <<>>

\* C10, amended: a row is written only by a request that got a non-empty
\* answer from the upstream service, which is either a combined lookup that
\* found the cache empty for its query or an upstream paginated search (which
\* reads no cache and writes anime rows only); a request answered 400 or 404
\* writes nothing, and the tables change only with such a write.
C10_Writers ==
    \A r \in Reqs :
        /\ req[r].writes # <<>> =>
              \/ /\ req[r].route = "name"
                 /\ req[r].cacheReads = 1
                 /\ req[r].rows = <<>>
                 /\ req[r].upstreamCalls = 1
                 /\ req[r].anime \in Catalog
              \/ /\ req[r].route = "search-api"
                 /\ req[r].upstreamCalls = 1
                 /\ req[r].animesPage # <<>>
                 /\ req[r].writes = <<"animes">>
        /\ req[r].status \in {400, 404} => req[r].writes = <<>>

C10_TablesChangeByWrite ==
    (animes' # animes \/ anime_episodes' # anime_episodes) =>
        \E r \in Reqs : Len(req'[r].writes) = Len(req[r].writes) + 1

C10_WritesOnlyAfterUpstream == [](C10_Writers) /\ [][C10_TablesChangeByWrite]_vars

\* The paginated search and a combined lookup that missed have both written.
C10_Witness ==
    \E r, o \in Reqs :
        /\ req[r].route = "search-api" /\ req[r].writes = <<"animes">>
        /\ req[o].route = "name" /\ req[o].writes = <<"anime_episodes", "animes">>

\* C11: the title upsert of the upstream paginated search leaves, for every
\* anime row that already exists, the description, genres, cover image, banner
\* image and episode count as they were, leaves the rows of animes outside the
\* page untouched, and leaves every row of anime_episodes unchanged.
DetailsOf(row) ==
    <<row.description, row.genres, row.cover_image, row.banner_image, row.episodes>>

IdsOfPage(page) == {page[k].id : k \in 1..Len(page)}

C11_TitleUpsertFrameStep ==
    \A r \in Reqs :
        (req[r].pc = "api_write" /\ req'[r].status = 200) =>
            /\ anime_episodes' = anime_episodes
            /\ Len(animes') >= Len(animes)
            /\ \A i \in 1..Len(animes) :
                /\ animes'[i].id = animes[i].id
                /\ DetailsOf(animes'[i]) = DetailsOf(animes[i])
                /\ animes[i].id \notin IdsOfPage(req[r].animesPage) => animes'[i] = animes[i]

C11_TitleUpsertFrame == [][C11_TitleUpsertFrameStep]_vars

\* The paginated search has rewritten the titles of an anime that the combined
\* lookup had stored with its description and episodes.
C11_Witness ==
    \E r \in Reqs :
        /\ Done(r)
        /\ req[r].route = "search-api"
        /\ req[r].status = 200
        /\ anime_episodes # <<>>
        /\ \E i \in 1..Len(animes) :
            /\ animes[i].id \in IdsOfPage(req[r].animesPage)
            /\ animes[i].description \notin {Null, <<>>}
            /\ animes[i].genres = Join(MediaA.genres)
            /\ animes[i].title_romaji = MediaA2.romaji

\* C12: a combined lookup whose cache query returned at least one row calls
\* neither the upstream service nor the translation service and writes to no
\* table, also when a matched anime has no episode row: it only reads the
\* episodes and answers 200 with source "database".
C12_HitState ==
    \A r \in Reqs :
        (req[r].route = "name" /\ req[r].rows # <<>>) =>
            /\ req[r].pc \in {"hit", "done"}
            /\ req[r].upstreamCalls = 0
            /\ req[r].translateCalls = 0
            /\ req[r].writes = <<>>
            /\ (Done(r) /\ req[r].thrown = "none") =>
                  /\ req[r].status = 200
                  /\ req[r].body.source = "database"

C12_HitStep ==
    \A r \in Reqs :
        (req[r].pc = "hit" /\ req'[r] # req[r]) =>
            animes' = animes /\ anime_episodes' = anime_episodes

C12_HitNeverBackfills == [](C12_HitState) /\ [][C12_HitStep]_vars

\* A hit returned an anime stored by the paginated search (no description)
\* with an empty episode list.
C12_Witness ==
    \E r \in Reqs :
        /\ Done(r)
        /\ req[r].route = "name"
        /\ req[r].body.source = "database"
        /\ \E i \in 1..Len(req[r].body.results) :
            /\ req[r].body.results[i].episodes = <<>>
            /\ req[r].body.results[i].anime.description = Null
        /\ \A i \in 1..Len(anime_episodes) :
              \A k \in 1..Len(req[r].rows) : anime_episodes[i].anime_id # req[r].rows[k].id

\* C13: whatever the order in which the episode translations of a request
\* complete, the translated title kept, stored and returned for episode number
\* i is a translation (sanitized, or the fallback) of the i-th upstream episode
\* title, and a slot whose translation is still pending holds none.
ExpectedTitles(anime, i) ==
    LET title == IF anime.streamingEpisodes[i].title = Null
                 THEN <<>> ELSE anime.streamingEpisodes[i].title
        clean == sanitizeHtml(ServiceText(title))
    IN {TranslationUnavailable, IF clean = <<>> THEN SemTitulo ELSE clean}

C13_Slots ==
    \A r \in Reqs :
        /\ \A i \in 1..Len(req[r].translatedTitles) :
              IF i \in req[r].pendingTitles /\ req[r].pc = "translateEpisodes"
              THEN req[r].translatedTitles[i] = Null
              ELSE req[r].translatedTitles[i] \in ExpectedTitles(req[r].anime, i)
        /\ (Done(r) /\ req[r].route = "name" /\ req[r].body.source = "api") =>
              \A i \in 1..Len(req[r].body.results[1].episodes) :
                  /\ req[r].body.results[1].episodes[i].title_translated
                        \in ExpectedTitles(req[r].anime, i)
                  /\ req[r].body.results[1].episodes[i].title_translated
                        = req[r].translatedTitles[i]

C13_Stored ==
    \A r \in Reqs :
        (req[r].pc = "writeEpisodes" /\ req'[r].pc = "writeAnime") =>
            \A i \in 1..Len(req[r].anime.streamingEpisodes) :
                \A j \in EpisodeRowsAt(anime_episodes', req[r].anime.id, i) :
                    /\ anime_episodes'[j].title_translated
                          \in ExpectedTitles(req[r].anime, i)
                    /\ anime_episodes'[j].title_translated = req[r].translatedTitles[i]

C13_TitlesByIndex == [](C13_Slots) /\ [][C13_Stored]_vars

\* The translation of the second episode completed before that of the first
\* and sits in the second slot.
C13_Witness ==
    \E r \in Reqs :
        /\ req[r].pc = "translateEpisodes"
        /\ req[r].anime = MediaA
        /\ req[r].pendingTitles = {1}
        /\ req[r].translatedTitles[2] = TranslationUnavailable

\* C14: a combined lookup reaches its writes only after the description
\* translation and the translation of every streaming episode of the upstream
\* answer have completed: at the writes no translation is pending and
\* 1 + N translation calls have been made.
StreamingCount(anime) == IF anime.hasStreaming THEN Len(anime.streamingEpisodes) ELSE 0

C14_WritesAfterTranslations ==
    \A r \in Reqs :
        (req[r].route = "name"
            /\ (req[r].writes # <<>> \/ req[r].pc \in {"writeEpisodes", "writeAnime"})) =>
            /\ req[r].descOutcome # "none"
            /\ req[r].pendingTitles = {}
            /\ req[r].translateCalls = 1 + StreamingCount(req[r].anime)
            /\ Len(req[r].translatedTitles) = StreamingCount(req[r].anime)
            /\ \A i \in 1..Len(req[r].translatedTitles) : req[r].translatedTitles[i] # Null

\* A request has written its episode batch after three translation calls.
C14_Witness ==
    \E r \in Reqs :
        /\ req[r].route = "name"
        /\ req[r].writes = <<"anime_episodes">>
        /\ req[r].translateCalls = 3
        /\ req[r].pendingTitles = {}

\* C15: every request gets exactly one reply once its outbound calls have
\* resolved or failed; the status is one of 200, 400, 404, 500, and a failing
\* cache query or upstream fetch is answered 500 with an error body.
C15_Replies ==
    \A r \in Reqs :
        /\ req[r].replies = (IF Done(r) THEN 1 ELSE 0)
        /\ req[r].pc \in {"idle", "done", "hit", "fetch", "translate", "translateEpisodes",
                          "writeEpisodes", "writeAnime", "api_write"}
        /\ Done(r) => req[r].status \in {200, 400, 404, 500}
        /\ ~Done(r) => (req[r].status = 0 /\ req[r].body = NoBody /\ req[r].thrown = "none")
        /\ req[r].thrown # "none" =>
              /\ req[r].thrown \in {"db", "upstream"}
              /\ req[r].status = 500
        /\ req[r].status \in {400, 404, 500} => req[r].body = ErrorBody
        /\ req[r].status = 500 => req[r].thrown # "none"
        /\ req[r].status = 200 => (~req[r].body.error /\ req[r].body.source \in {"database", "api"})

C15_EveryRequestAnswered ==
    [](C15_Replies) /\ \A r \in Reqs : (InFlight(r) ~> Done(r))

\* A request whose upstream fetch failed after a cache miss was answered 500.
C15_Witness ==
    \E r \in Reqs :
        /\ Done(r)
        /\ req[r].route = "name"
        /\ req[r].thrown = "upstream"
        /\ req[r].status = 500
        /\ req[r].replies = 1

\* C16: the combined lookup goes on to the upstream fetch only when no stored
\* anime row matches the normalized query, for every page and limit.
C16_FetchStep ==
    \A r \in Reqs :
        (req[r].pc # "fetch" /\ req'[r].pc = "fetch") =>
            NoRowMatches(animes, req'[r].sanitizedQuery)

C16_FetchOnlyWhenNothingMatches == [][C16_FetchStep]_vars

\* Slot o holds the reply of a combined lookup that went through its miss path,
\* and the anime row it stored is still in the store as it wrote it.
StoredByMiss(o) ==
    /\ Done(o)
    /\ req[o].route = "name"
    /\ req[o].status = 200
    /\ req[o].body.source = "api"
    /\ \E i \in 1..Len(animes) : animes[i] = AnimeValues(req[o])

\* Slot r receives a combined lookup for the query of slot o, page 1, and the
\* cache query succeeds.
LooksUpAgain(r, o) ==
    \E query \in Queries, limit \in Limits :
        /\ ~InvalidQuery(query)
        /\ SanitizeQuery(query.val) = req[o].sanitizedQuery
        /\ AnimeName(r, query, 1, limit, TRUE)

\* C17 as stated: after a miss for q has stored its anime, the next lookup for
\* q with page 1 is a cache hit that returns this anime, whatever record the
\* upstream service chose.  The store holds nothing but the row of that miss,
\* so that no other write has intervened.
C17_NextLookupStep ==
    \A r, o \in Reqs :
        (r # o /\ StoredByMiss(o) /\ animes = <<AnimeValues(req[o])>> /\ LooksUpAgain(r, o)) =>
            /\ req'[r].pc = "hit"
            /\ req'[r].upstreamCalls = 0
            /\ req'[r].rows = <<AnimeValues(req[o])>>

C17_NextLookupHits == [][C17_NextLookupStep]_vars

\* C18: combined lookups for the same query that overlap and all miss the cache
\* each end with success, whatever the interleaving of their fetches,
\* translations and writes, and the store holds one anime row for the fetched
\* identifier and one episode row per (anime id, episode number).
OneRowPerEpisode(table) ==
    \A i, j \in 1..Len(table) :
        (table[i].anime_id = table[j].anime_id
            /\ table[i].episode_number = table[j].episode_number) => i = j

MissedTogether(r, o) ==
    /\ r # o
    /\ req[r].route = "name" /\ req[o].route = "name"
    /\ req[r].sanitizedQuery = req[o].sanitizedQuery
    /\ req[r].upstreamCalls = 1 /\ req[o].upstreamCalls = 1
    /\ req[r].anime.id # 0 /\ req[r].anime.id = req[o].anime.id

C18_ConcurrentMisses ==
    /\ OneRowPerId(animes)
    /\ OneRowPerEpisode(anime_episodes)
    /\ \A r, o \in Reqs :
          (MissedTogether(r, o) /\ Done(r) /\ req[r].thrown = "none") =>
              /\ req[r].status = 200
              /\ req[r].body.source = "api"
              /\ req[r].writes = (IF StreamingCount(req[r].anime) > 0
                                  THEN <<"anime_episodes", "animes">> ELSE <<"animes">>)
              /\ Cardinality(RowsOf(animes, req[r].anime.id)) = 1
              /\ \A n \in 1..StreamingCount(req[r].anime) :
                    Cardinality(EpisodeRowsAt(anime_episodes, req[r].anime.id, n)) = 1

\* Two lookups for one query both found the store empty, both fetched the
\* same anime with two episodes, and both have written their episode batch.
C18_Witness ==
    \E r, o \in Reqs :
        /\ MissedTogether(r, o)
        /\ req[r].pc = "writeAnime" /\ req[o].pc = "writeAnime"
        /\ req[r].anime = req[o].anime
        /\ StreamingCount(req[r].anime) = 2
        /\ animes = <<>>
        /\ Len(anime_episodes) = 2

\* C19: for every anime the episode numbers stored in anime_episodes are
\* 1..K for some K >= 0, also after the anime is fetched again with a
\* streaming-episode list of another length.
C19_ContiguousNumbers ==
    \A i \in 1..Len(anime_episodes) :
        LET numbers == EpisodeNumbers(anime_episodes, anime_episodes[i].anime_id)
        IN numbers = 1..Cardinality(numbers)

\* An anime stored with two episodes was fetched again with a listing of one
\* episode, which refreshed row 1 and left row 2.
C19_Witness ==
    \E i, j \in 1..Len(anime_episodes) :
        /\ anime_episodes[i].anime_id = anime_episodes[j].anime_id
        /\ anime_episodes[i].episode_number = 1
        /\ anime_episodes[j].episode_number = 2
        /\ anime_episodes[i].title_romaji = MediaA2.streamingEpisodes[1].title
        /\ anime_episodes[j].title_romaji = MediaA.streamingEpisodes[2].title

\* C20: every query that passes validation has a non-empty normalized search
\* term, so a query made of punctuation only never matches the stored titles
\* on the empty substring.
C20_NormalizedTermNotEmpty ==
    \A r \in Reqs :
        (Busy(r) /\ ~InvalidQuery(req[r].query)) =>
            /\ req[r].sanitizedQuery # <<>>
            /\ req[r].status # 400
====
